---- MODULE Spec2Model ----
(***************************************************************************)
(* EcoCrop AI backend (src/backend/server.py): registration, login,        *)
(* bearer-token authentication, crop-analysis submission with the AI       *)
(* response post-processing, history listing and single-analysis lookup.   *)
(* Every request handler is split at its awaits: one action per segment    *)
(* between two awaited calls, so that concurrent requests interleave as    *)
(* the asyncio event loop lets them.                                       *)
(***************************************************************************)
EXTENDS Integers, Sequences, FiniteSets, TLC

VARIABLES
    users,      \* db.users: sequence of user documents, in insertion order
    analyses,   \* db.analyses: sequence of analysis documents, in insertion order
    issued,     \* tokens handed out by register/login, with the user they were issued for
    now,        \* the clock, in hours
    nextUuid,   \* next value of uuid.uuid4()
    pc,         \* per request slot: where the handler is suspended
    loc,        \* per request slot: the handler's local variables
    last        \* the step just performed: request, inputs and response

vars == <<users, analyses, issued, now, nextUuid, pc, loc, last>>

(***************************** bounds ************************************)
MaxUsers == 2
MaxIssued == 2
MaxAnalyses == 2
MaxNow == 168
HistAnalyses == 102
HistEarly == 2
HistMaxNow == 84

(************************** program constants ****************************)
JWT_EXPIRATION_HOURS == 24 * 7
HistoryLimit == 100
FallbackChars == 200
FallbackConfidence == 75

Procs == {"r1", "r2"}
Emails == {"a@x.com", "b@x.com"}
Names == {"A"}
Passwords == {"p1", "p2"}
Salts == {1}
Null == [null |-> TRUE]
NullId == 0
UnknownId == -1

(* The optional upload of POST /analysis: none, a picture PIL can re-encode
   as JPEG, a picture with an alpha channel, bytes that are not a picture, and
   a picture over 1 MiB, which Starlette has rolled to disk. *)
Images == {"none", "rgb", "rgba", "unreadable", "spooled"}

(* The optional readings of the form: none, those of the test suite
   (45 %, 25.5 degrees, 70 %), and a soil moisture of 0 alone. *)
Readings ==
    { [soil_moisture |-> Null, temperature |-> Null, humidity |-> Null],
      [soil_moisture |-> [n |-> 45], temperature |-> [tenths |-> 255],
       humidity |-> [n |-> 70]],
      [soil_moisture |-> [n |-> 0], temperature |-> Null, humidity |-> Null] }

Observation(readings, image) ==
    [crop_name |-> "Tomato", growth_stage |-> "Flowering",
     symptoms |-> "Yellowing leaves", soil_moisture |-> readings.soil_moisture,
     temperature |-> readings.temperature, humidity |-> readings.humidity,
     image |-> image]

Observations ==
    {Observation(readings, "none") : readings \in Readings}
        \cup {Observation(CHOOSE r \in Readings : r.soil_moisture = Null, image) :
                 image \in Images}

TextObservations ==
    {obs \in Observations : obs.image = "none" /\ obs.soil_moisture = Null}

Min(a, b) == IF a < b THEN a ELSE b

Take(s, n) == SubSeq(s, 1, Min(n, Len(s)))

Drop(s, n) == SubSeq(s, Min(n, Len(s)) + 1, Len(s))

RECURSIVE Reverse(_)
Reverse(s) == IF s = <<>> THEN <<>> ELSE Append(Reverse(Tail(s)), Head(s))

(* datetime.isoformat() and datetime.fromisoformat(): the stored created_at
   is the string form of the timestamp, not the timestamp. *)
isoformat(t) == [iso |-> t]

fromisoformat(s) == s.iso

(*************************** passwords ***********************************)
hash_password(password, salt) ==
    [alg |-> "bcrypt", salt |-> salt, digest |-> <<salt, password>>]

verify_password(password, hashed) ==
    hashed.digest = <<hashed.salt, password>>

(***************************** tokens ************************************)
(* jwt.encode of {user_id, email, exp} under JWT_SECRET. *)
create_token(user_id, email) ==
    [fmt |-> "jwt", sig_ok |-> TRUE, user_id |-> user_id, email |-> email,
     exp |-> now + JWT_EXPIRATION_HOURS]

NoToken == [fmt |-> "none", sig_ok |-> FALSE, user_id |-> NullId, email |-> "",
            exp |-> 0]

GarbageToken == [fmt |-> "garbage", sig_ok |-> FALSE, user_id |-> NullId,
                 email |-> "", exp |-> 0]

(* Tokens a client can craft or bring from elsewhere. *)
CraftedTokens ==
    { NoToken,
      GarbageToken,
      [fmt |-> "jwt", sig_ok |-> FALSE, user_id |-> 1, email |-> "a@x.com",
       exp |-> MaxNow + JWT_EXPIRATION_HOURS],
      [fmt |-> "jwt", sig_ok |-> TRUE, user_id |-> NullId, email |-> "a@x.com",
       exp |-> MaxNow + JWT_EXPIRATION_HOURS],
      [fmt |-> "jwt", sig_ok |-> TRUE, user_id |-> UnknownId, email |-> "z@x.com",
       exp |-> MaxNow + JWT_EXPIRATION_HOURS],
      [fmt |-> "jwt", sig_ok |-> TRUE, user_id |-> 1, email |-> "a@x.com", exp |-> 0] }

IssuedTokens == {i.token : i \in issued}

Credentials == CraftedTokens \cup IssuedTokens

(**************************** db.users ***********************************)
FirstIdx(S) == IF S = {} THEN 0 ELSE CHOOSE i \in S : \A j \in S : i <= j

find_user_by_email(email) ==
    LET i == FirstIdx({k \in 1 .. Len(users) : users[k].email = email})
    IN  IF i = 0 THEN Null ELSE users[i]

find_user_by_id(user_id) ==
    LET i == FirstIdx({k \in 1 .. Len(users) : users[k].id = user_id})
    IN  IF i = 0 THEN Null ELSE users[i]

Public(user) == [id |-> user.id, email |-> user.email, name |-> user.name]

(************************** responses ************************************)
Resp(status, detail, body, token) ==
    [status |-> status, detail |-> detail, body |-> body, token |-> token]

Pending == Resp(0, "", Null, NoToken)

InternalServerError == Resp(500, "Internal Server Error", Null, NoToken)

Step(p, op, phase, input, resp) ==
    [op |-> op, phase |-> phase, input |-> input, resp |-> resp]

NoLoc == [kind |-> "none"]

(************************ get_current_user *******************************)
(* Variant: the expiry comparison is strict, so a token is still accepted at
   the instant it expires. *)
jwt_decode_late_expiry(token) ==
    IF token.fmt # "jwt" THEN "InvalidTokenError"
    ELSE IF ~token.sig_ok THEN "InvalidTokenError"
    ELSE IF token.exp < now THEN "ExpiredSignatureError"
    ELSE "ok"

(* Variant: the signature is not verified. *)
jwt_decode_unverified(token) ==
    IF token.fmt # "jwt" THEN "InvalidTokenError"
    ELSE IF token.exp <= now THEN "ExpiredSignatureError"
    ELSE "ok"

jwt_decode(token) ==
    IF token.fmt # "jwt" THEN "InvalidTokenError"
    ELSE IF ~token.sig_ok THEN "InvalidTokenError"
    ELSE IF token.exp <= now THEN "ExpiredSignatureError"
    ELSE "ok"

(* get_current_user up to its await (lines 112-117, and the handlers of
   lines 123-126): HTTPBearer has read the header, the token is decoded
   against the clock and the user_id claim is taken from the payload. *)
get_current_user_decode(token) ==
    IF token.fmt = "none"
    THEN [ok |-> FALSE, resp |-> Resp(403, "Not authenticated", Null, NoToken)]
    ELSE LET d == jwt_decode(token) IN
         IF d = "ExpiredSignatureError"
         THEN [ok |-> FALSE, resp |-> Resp(401, "Token expired", Null, NoToken)]
         ELSE IF d = "InvalidTokenError"
         THEN [ok |-> FALSE, resp |-> Resp(401, "Invalid token", Null, NoToken)]
         ELSE IF token.user_id = NullId
         THEN [ok |-> FALSE, resp |-> Resp(401, "Invalid token", Null, NoToken)]
         ELSE [ok |-> TRUE, resp |-> Pending]

(* Variant: the user is looked up by the email claim instead of user_id. *)
get_current_user_by_email(token) == find_user_by_email(token.email)

(* Variant: the token payload is believed without reading db.users. *)
get_current_user_unchecked(token) ==
    [id |-> token.user_id, email |-> token.email, name |-> ""]

(* The find_one of line 119, as the store answers it. *)
get_current_user_find(token) == find_user_by_id(token.user_id)

(* get_current_user once it is resumed with the answer (lines 120-122); the
   clock is not read again. *)
get_current_user_return(user) ==
    IF user = Null
    THEN [ok |-> FALSE, resp |-> Resp(401, "User not found", Null, NoToken)]
    ELSE [ok |-> TRUE, resp |-> Pending]

(* The first segment of a bearer-authenticated request: either it is turned
   away, or it is suspended at the find_one of line 119. *)
AuthDecode(p, op, input, waiting) ==
    /\ pc[p] = "idle"
    /\ LET d == get_current_user_decode(input.token) IN
       IF ~d.ok
       THEN /\ last' = Step(p, op, "auth", input, d.resp)
            /\ UNCHANGED <<pc, loc>>
       ELSE /\ pc' = [pc EXCEPT ![p] = waiting]
            /\ loc' = [loc EXCEPT ![p] = [kind |-> "auth", input |-> input]]
            /\ last' = Step(p, op, "auth", input, Pending)
    /\ UNCHANGED <<users, analyses, issued, now, nextUuid>>

(* The store answers the find_one of line 119; the request is not resumed
   yet. *)
AuthFind(p, op, waiting, found) ==
    /\ pc[p] = waiting
    /\ pc' = [pc EXCEPT ![p] = found]
    /\ loc' = [loc EXCEPT ![p] =
                  [kind |-> "auth", input |-> loc[p].input,
                   user |-> get_current_user_find(loc[p].input.token)]]
    /\ last' = Step(p, op, "user", loc[p].input, Pending)
    /\ UNCHANGED <<users, analyses, issued, now, nextUuid>>

(* A request ends with a response. *)
Respond(p, op, phase, input, resp) ==
    /\ pc' = [pc EXCEPT ![p] = "idle"]
    /\ loc' = [loc EXCEPT ![p] = NoLoc]
    /\ last' = Step(p, op, phase, input, resp)

(***************************** Init **************************************)
Init ==
    /\ users = <<>>
    /\ analyses = <<>>
    /\ issued = {}
    /\ now = 0
    /\ nextUuid = 1
    /\ pc = [p \in Procs |-> "idle"]
    /\ loc = [p \in Procs |-> NoLoc]
    /\ last = Step("r1", "start", "", Null, Pending)

(****************************** clock ************************************)
Tick(d) ==
    /\ now' = now + d
    /\ last' = Step("r1", "tick", "", Null, Pending)
    /\ UNCHANGED <<users, analyses, issued, nextUuid, pc, loc>>

(************************ POST /auth/register ****************************)
(* Variant: the lookup of an existing user is left out. *)
RegisterFindUnchecked(p, email, name, password) ==
    /\ pc[p] = "idle"
    /\ LET input == [email |-> email, name |-> name, password |-> password] IN
       /\ loc' = [loc EXCEPT ![p] =
                     [kind |-> "register", input |-> input, existing_user |-> Null]]
       /\ last' = Step(p, "register", "find", input, Pending)
    /\ pc' = [pc EXCEPT ![p] = "reg_found"]
    /\ UNCHANGED <<users, analyses, issued, now, nextUuid>>

(* The store answers the find_one of line 130; the request is not resumed
   yet. *)
RegisterFind(p, email, name, password) ==
    /\ pc[p] = "idle"
    /\ LET input == [email |-> email, name |-> name, password |-> password] IN
       /\ loc' = [loc EXCEPT ![p] =
                     [kind |-> "register", input |-> input,
                      existing_user |-> find_user_by_email(email)]]
       /\ last' = Step(p, "register", "find", input, Pending)
    /\ pc' = [pc EXCEPT ![p] = "reg_found"]
    /\ UNCHANGED <<users, analyses, issued, now, nextUuid>>

(* register is resumed with the answer (lines 131-142): 400, or the User is
   built, with the clock of this moment, and insert_one is sent. *)
RegisterUser(p, salt) ==
    /\ pc[p] = "reg_found"
    /\ LET input == loc[p].input IN
       IF loc[p].existing_user # Null
       THEN /\ Respond(p, "register", "user", input,
                       Resp(400, "Email already registered", Null, NoToken))
            /\ UNCHANGED nextUuid
       ELSE /\ loc' = [loc EXCEPT ![p] =
                          [kind |-> "register", input |-> input,
                           user |-> [id |-> nextUuid, email |-> input.email,
                                     name |-> input.name,
                                     password_hash |-> hash_password(input.password, salt),
                                     created_at |-> isoformat(now)]]]
            /\ nextUuid' = nextUuid + 1
            /\ pc' = [pc EXCEPT ![p] = "reg_insert"]
            /\ last' = Step(p, "register", "user", input, Pending)
    /\ UNCHANGED <<users, analyses, issued, now>>

(* The store performs the insert_one of line 142; the request is not resumed
   yet. *)
RegisterInsert(p) ==
    /\ pc[p] = "reg_insert"
    /\ users' = Append(users, loc[p].user)
    /\ pc' = [pc EXCEPT ![p] = "reg_inserted"]
    /\ last' = Step(p, "register", "insert", loc[p].input, Pending)
    /\ UNCHANGED <<analyses, issued, now, nextUuid, loc>>

(* register is resumed (lines 144-148): the token is made with the clock of
   this moment. *)
RegisterRespond(p) ==
    /\ pc[p] = "reg_inserted"
    /\ LET user == loc[p].user
           token == create_token(user.id, user.email)
       IN  /\ issued' = issued \cup {[token |-> token, user |-> Public(user), at |-> now]}
           /\ Respond(p, "register", "respond", loc[p].input,
                      Resp(200, "", Public(user), token))
    /\ UNCHANGED <<users, analyses, now, nextUuid>>

(************************** POST /auth/login *****************************)
(* Variant: an unknown email is reported differently from a wrong password. *)
login_distinct(user, password) ==
    IF user = Null
    THEN Resp(404, "User not found", Null, NoToken)
    ELSE IF ~verify_password(password, user.password_hash)
    THEN Resp(401, "Invalid email or password", Null, NoToken)
    ELSE Resp(200, "", Public(user), create_token(user.id, user.email))

(* login once it is resumed with the answer of find_one (lines 153-160). *)
login(user, password) ==
    IF user = Null \/ ~verify_password(password, user.password_hash)
    THEN Resp(401, "Invalid email or password", Null, NoToken)
    ELSE Resp(200, "", Public(user), create_token(user.id, user.email))

(* The store answers the find_one of line 152; the request is not resumed
   yet. *)
LoginFind(p, email, password) ==
    /\ pc[p] = "idle"
    /\ LET input == [email |-> email, password |-> password] IN
       /\ loc' = [loc EXCEPT ![p] =
                     [kind |-> "login", input |-> input,
                      user |-> find_user_by_email(email)]]
       /\ last' = Step(p, "login", "find", input, Pending)
    /\ pc' = [pc EXCEPT ![p] = "login_found"]
    /\ UNCHANGED <<users, analyses, issued, now, nextUuid>>

Login(p) ==
    /\ pc[p] = "login_found"
    /\ LET r == login(loc[p].user, loc[p].input.password) IN
       /\ Respond(p, "login", "respond", loc[p].input, r)
       /\ issued' = IF r.status = 200
                    THEN issued \cup {[token |-> r.token, user |-> r.body, at |-> now]}
                    ELSE issued
    /\ UNCHANGED <<users, analyses, now, nextUuid>>

(***************************** GET /auth/me ******************************)
GetMe(p, token) == AuthDecode(p, "me", [token |-> token], "me_user")

GetMeUser(p) == AuthFind(p, "me", "me_user", "me_found")

(* get_current_user and get_me are resumed; get_me itself awaits nothing. *)
GetMeRespond(p) ==
    /\ pc[p] = "me_found"
    /\ LET a == get_current_user_return(loc[p].user) IN
       Respond(p, "me", "respond", loc[p].input,
               IF a.ok THEN Resp(200, "", Public(loc[p].user), NoToken) ELSE a.resp)
    /\ UNCHANGED <<users, analyses, issued, now, nextUuid>>

(************************ the AI response text ****************************)
(* A text is a sequence of characters.  A JSON document is written as its
   opening character, which also names the document, its inner characters
   (DocBody) and its closing character, so that it has its length in
   characters and a slice can cut it.  BackQuote is the backquote
   character. *)
BackQuote == "bq"
FenceJson == <<BackQuote, BackQuote, BackQuote, "j", "s", "o", "n">>
Fence == <<BackQuote, BackQuote, BackQuote>>
Digits == <<"0", "1", "2", "3", "4", "5", "6", "7", "8", "9">>

IsSpace(c) == c \in {" ", "\n"}

RECURSIVE lstrip(_)
lstrip(s) == IF s # <<>> /\ IsSpace(Head(s)) THEN lstrip(Tail(s)) ELSE s

RECURSIVE rstrip(_)
rstrip(s) ==
    IF s # <<>> /\ IsSpace(s[Len(s)]) THEN rstrip(SubSeq(s, 1, Len(s) - 1)) ELSE s

strip(s) == rstrip(lstrip(s))

startswith(s, prefix) ==
    Len(s) >= Len(prefix) /\ SubSeq(s, 1, Len(prefix)) = prefix

endswith(s, suffix) ==
    Len(s) >= Len(suffix) /\ SubSeq(s, Len(s) - Len(suffix) + 1, Len(s)) = suffix

(* JSON values as Python sees them after json.loads. *)
JInt(n) == [t |-> "int", n |-> n, s |-> <<>>]
JStr(s) == [t |-> "str", n |-> 0, s |-> s]
JNull == [t |-> "null", n |-> 0, s |-> <<>>]
Absent == [t |-> "absent", n |-> 0, s |-> <<>>]

JObject(diagnosis, confidence_score, rest) ==
    [t |-> "object",
     fields |-> [diagnosis |-> diagnosis,
                 confidence_score |-> confidence_score,
                 immediate_action |-> rest,
                 sustainable_treatment |-> rest,
                 resource_efficiency_tip |-> rest,
                 risk_level |-> IF rest = Absent THEN Absent ELSE JStr(<<"High">>)]]

(* The documents the opening characters name. *)
JsonDocs ==
    [d \in {"{int85}", "{str85}", "{high}", "{zero}", "{empty}", "{null}", "[list]"} |->
       CASE d = "{int85}" -> JObject(JStr(<<"Early Blight">>), JInt(85), JStr(<<"advice">>))
         [] d = "{str85}" -> JObject(JStr(<<"Early Blight">>), JStr(<<"8", "5">>), JStr(<<"advice">>))
         [] d = "{high}"  -> JObject(JStr(<<"Early Blight">>), JStr(<<"h", "i", "g", "h">>), JStr(<<"advice">>))
         [] d = "{zero}"  -> JObject(JStr(<<"Healthy">>), JInt(0), JStr(<<"advice">>))
         [] d = "{empty}" -> JObject(Absent, Absent, Absent)
         [] d = "{null}"  -> JObject(JStr(<<"Early Blight">>), JNull, JStr(<<"advice">>))
         [] d = "[list]"  -> [t |-> "list", fields |-> Null]]

DocBody == "~"

Closer(d) == IF d = "[list]" THEN "]" ELSE "}"

(* The document d written in n characters. *)
Text(d, n) ==
    [i \in 1 .. n |-> IF i = 1 THEN d ELSE IF i = n THEN Closer(d) ELSE DocBody]

(* The length of each document as json.dumps writes it with the separators
   "," and ":". *)
CompactChars ==
    [d \in DOMAIN JsonDocs |->
       CASE d = "{int85}" -> 166
         [] d = "{str85}" -> 168
         [] d = "{high}"  -> 170
         [] d = "{zero}"  -> 160
         [] d = "{empty}" -> 2
         [] d = "{null}"  -> 168
         [] d = "[list]"  -> 2]

Compact(d) == Text(d, CompactChars[d])

(* The document of 85 as json.dumps writes it with indent=4. *)
Indented == Text("{int85}", 203)

(* json.loads: the text must be exactly one document, from its opening
   character to its closing character. *)
json_loads(text) ==
    IF /\ Len(text) >= 2
       /\ text[1] \in DOMAIN JsonDocs
       /\ text[Len(text)] = Closer(text[1])
       /\ \A i \in 2 .. Len(text) - 1 : text[i] = DocBody
    THEN [ok |-> TRUE, value |-> JsonDocs[text[1]]]
    ELSE [ok |-> FALSE, value |-> Null]

(* Python truthiness of result.get(confidence_score). *)
truthy(v) ==
    CASE v.t = "int" -> v.n # 0
      [] v.t = "str" -> v.s # <<>>
      [] OTHER -> FALSE

DigitValue(c) == CHOOSE i \in 0 .. 9 : Digits[i + 1] = c

IsDigit(c) == \E i \in 1 .. 10 : Digits[i] = c

RECURSIVE ParseDigits(_)
ParseDigits(s) ==
    IF s = <<>> THEN 0
    ELSE 10 * ParseDigits(SubSeq(s, 1, Len(s) - 1)) + DigitValue(s[Len(s)])

(* int(x) of Python for the values json.loads produces. *)
py_int(v) ==
    IF v.t = "int" THEN [ok |-> TRUE, n |-> v.n]
    ELSE IF v.t = "str"
    THEN LET body == strip(v.s)
             neg == body # <<>> /\ Head(body) = "-"
             digits == IF body # <<>> /\ Head(body) \in {"-", "+"} THEN Tail(body) ELSE body
         IN  IF digits # <<>> /\ \A i \in 1 .. Len(digits) : IsDigit(digits[i])
             THEN [ok |-> TRUE, n |-> IF neg THEN 0 - ParseDigits(digits) ELSE ParseDigits(digits)]
             ELSE [ok |-> FALSE, n |-> 0]
    ELSE [ok |-> FALSE, n |-> 0]

strip_fences(response) ==
    LET t0 == strip(response)
        t1 == IF startswith(t0, FenceJson) THEN Drop(t0, 7) ELSE t0
        t2 == IF endswith(t1, Fence) THEN SubSeq(t1, 1, Len(t1) - 3) ELSE t1
    IN  strip(t2)

fallback_result(response) ==
    [diagnosis |-> JStr(<<"Analysis completed">>),
     confidence_score |-> JInt(FallbackConfidence),
     immediate_action |-> JStr(<<"Monitor crop closely">>),
     sustainable_treatment |-> JStr(Take(response, FallbackChars)),
     resource_efficiency_tip |-> JStr(<<"Implement drip irrigation to conserve water">>),
     risk_level |-> JStr(<<"Medium">>)]

(* Variant: the code fences are not stripped before parsing. *)
analyze_crop_with_ai_unfenced(response) ==
    LET parsed == json_loads(strip(response)) IN
    IF ~parsed.ok
    THEN [raised |-> "", result |-> fallback_result(response)]
    ELSE IF parsed.value.t # "object"
    THEN [raised |-> "AttributeError", result |-> Null]
    ELSE LET result == parsed.value.fields IN
         IF truthy(result.confidence_score)
         THEN LET c == py_int(result.confidence_score) IN
              IF c.ok
              THEN [raised |-> "", result |-> [result EXCEPT !.confidence_score = JInt(c.n)]]
              ELSE [raised |-> "ValueError", result |-> Null]
         ELSE [raised |-> "", result |-> result]

(* analyze_crop_with_ai from the point where the AI has answered. *)
analyze_crop_with_ai(response) ==
    LET parsed == json_loads(strip_fences(response)) IN
    IF ~parsed.ok
    THEN [raised |-> "", result |-> fallback_result(response)]
    ELSE IF parsed.value.t # "object"
    THEN [raised |-> "AttributeError", result |-> Null]
    ELSE LET result == parsed.value.fields IN
         IF truthy(result.confidence_score)
         THEN LET c == py_int(result.confidence_score) IN
              IF c.ok
              THEN [raised |-> "", result |-> [result EXCEPT !.confidence_score = JInt(c.n)]]
              ELSE [raised |-> "ValueError", result |-> Null]
         ELSE [raised |-> "", result |-> result]

(* dict.get(key, default) *)
get(v, default) == IF v.t = "absent" THEN default ELSE v

(* pydantic's validation of a str field and of an int field. *)
valid_str(v) == v.t = "str"

(* UploadFile.read suspends the request when the upload was rolled to disk. *)
read_suspends(image) == image = "spooled"

valid_int(v) == IF v.t = "str" THEN truthy(v) /\ py_int(v).ok ELSE v.t = "int"

(* Lines 261-267: the upload is opened, shrunk and saved as JPEG.  PIL
   raises on bytes it cannot identify and on saving a picture with an alpha
   channel as JPEG. *)
image_base64(image) ==
    CASE image = "none" -> [raised |-> "", value |-> "none"]
      [] image = "rgb" -> [raised |-> "", value |-> "jpeg"]
      [] image = "spooled" -> [raised |-> "", value |-> "jpeg"]
      [] image = "rgba" -> [raised |-> "OSError", value |-> "none"]
      [] image = "unreadable" -> [raised |-> "UnidentifiedImageError", value |-> "none"]

(* CropAnalysis(...) of create_analysis: the field values, or a ValidationError. *)
CropAnalysis(current_user, obs, ai_result, id) ==
    LET diagnosis == get(ai_result.diagnosis, JStr(<<"Unknown">>))
        confidence_score == get(ai_result.confidence_score, JInt(0))
        immediate_action == get(ai_result.immediate_action, JStr(<<>>))
        sustainable_treatment == get(ai_result.sustainable_treatment, JStr(<<>>))
        resource_efficiency_tip == get(ai_result.resource_efficiency_tip, JStr(<<>>))
        risk_level == get(ai_result.risk_level, JStr(<<"Medium">>))
    IN  IF /\ valid_str(diagnosis) /\ valid_int(confidence_score)
           /\ valid_str(immediate_action) /\ valid_str(sustainable_treatment)
           /\ valid_str(resource_efficiency_tip) /\ valid_str(risk_level)
        THEN [ok |-> TRUE,
              doc |-> [id |-> id,
                       user_id |-> current_user.id,
                       crop_name |-> obs.crop_name,
                       growth_stage |-> obs.growth_stage,
                       symptoms |-> obs.symptoms,
                       soil_moisture |-> obs.soil_moisture,
                       temperature |-> obs.temperature,
                       humidity |-> obs.humidity,
                       image_data |-> image_base64(obs.image).value,
                       diagnosis |-> diagnosis.s,
                       confidence_score |-> py_int(confidence_score).n,
                       immediate_action |-> immediate_action.s,
                       sustainable_treatment |-> sustainable_treatment.s,
                       resource_efficiency_tip |-> resource_efficiency_tip.s,
                       risk_level |-> risk_level.s,
                       created_at |-> now]]
        ELSE [ok |-> FALSE, doc |-> Null]

CropAnalysisResponse(a, created_at) ==
    [id |-> a.id, crop_name |-> a.crop_name, growth_stage |-> a.growth_stage,
     diagnosis |-> a.diagnosis, confidence_score |-> a.confidence_score,
     immediate_action |-> a.immediate_action,
     sustainable_treatment |-> a.sustainable_treatment,
     resource_efficiency_tip |-> a.resource_efficiency_tip,
     risk_level |-> a.risk_level, created_at |-> created_at]

(**************************** POST /analysis *****************************)
CreateAnalysisAuth(p, token, obs) ==
    AuthDecode(p, "analysis", [token |-> token, obs |-> obs], "ana_user")

CreateAnalysisUser(p) == AuthFind(p, "analysis", "ana_user", "ana_found")

(* Lines 263-269 and 170-214: the upload is re-encoded and the AI call is
   made, or PIL raises. *)
CreateAnalysisCall(p, phase, current_user, input) ==
    IF image_base64(input.obs.image).raised # ""
    THEN Respond(p, "analysis", phase, input, InternalServerError)
    ELSE /\ pc' = [pc EXCEPT ![p] = "ana_ai"]
         /\ loc' = [loc EXCEPT ![p] =
                       [kind |-> "analysis", current_user |-> current_user,
                        input |-> input]]
         /\ last' = Step(p, "analysis", phase, input, Pending)

(* get_current_user and create_analysis are resumed with the answer of
   find_one: 401, or the handler runs to its next suspension, which is the
   read of an upload rolled to disk (line 262) or else the AI call. *)
CreateAnalysisBody(p) ==
    /\ pc[p] = "ana_found"
    /\ LET a == get_current_user_return(loc[p].user)
           input == loc[p].input
       IN  IF ~a.ok
           THEN Respond(p, "analysis", "body", input, a.resp)
           ELSE IF read_suspends(input.obs.image)
           THEN /\ pc' = [pc EXCEPT ![p] = "ana_read"]
                /\ loc' = [loc EXCEPT ![p] =
                              [kind |-> "analysis", current_user |-> loc[p].user,
                               input |-> input]]
                /\ last' = Step(p, "analysis", "body", input, Pending)
           ELSE CreateAnalysisCall(p, "body", loc[p].user, input)
    /\ UNCHANGED <<users, analyses, issued, now, nextUuid>>

(* image.read() has returned. *)
CreateAnalysisRead(p) ==
    /\ pc[p] = "ana_read"
    /\ CreateAnalysisCall(p, "read", loc[p].current_user, loc[p].input)
    /\ UNCHANGED <<users, analyses, issued, now, nextUuid>>

(* Variant: a failed AI call is sent again instead of ending the request. *)
CreateAnalysisAiErrorRetried(p) ==
    /\ pc[p] = "ana_ai"
    /\ last' = Step(p, "analysis", "ai_error", loc[p].input, Pending)
    /\ UNCHANGED <<users, analyses, issued, now, nextUuid, pc, loc>>

(* chat.send_message raised. *)
CreateAnalysisAiError(p) ==
    /\ pc[p] = "ana_ai"
    /\ Respond(p, "analysis", "ai_error", loc[p].input, InternalServerError)
    /\ UNCHANGED <<users, analyses, issued, now, nextUuid>>

(* chat.send_message returned response and the handler is resumed: the
   answer is processed, the record is built with the clock of this moment and
   insert_one is sent.  The answer itself reads and writes nothing here. *)
CreateAnalysisAi(p, response) ==
    /\ pc[p] = "ana_ai"
    /\ LET ai == analyze_crop_with_ai(response)
           built == IF ai.raised = ""
                    THEN CropAnalysis(loc[p].current_user, loc[p].input.obs, ai.result, nextUuid)
                    ELSE [ok |-> FALSE, doc |-> Null]
           input == [token |-> loc[p].input.token, obs |-> loc[p].input.obs,
                     response |-> response, doc |-> built.doc]
       IN  IF built.ok
           THEN /\ pc' = [pc EXCEPT ![p] = "ana_insert"]
                /\ loc' = [loc EXCEPT ![p] =
                              [kind |-> "insert", analysis |-> built.doc, input |-> input]]
                /\ nextUuid' = nextUuid + 1
                /\ last' = Step(p, "analysis", "ai", input, Pending)
           ELSE /\ Respond(p, "analysis", "ai", input, InternalServerError)
                /\ nextUuid' = nextUuid
    /\ UNCHANGED <<users, analyses, issued, now>>

(* Variant: the insert replaces the records the user already has. *)
CreateAnalysisInsertUpsert(p) ==
    /\ pc[p] = "ana_insert"
    /\ LET analysis == loc[p].analysis
           analysis_dict == [analysis EXCEPT !.created_at = isoformat(analysis.created_at)]
           Others(r) == r.user_id # analysis.user_id
       IN  analyses' = Append(SelectSeq(analyses, Others), analysis_dict)
    /\ pc' = [pc EXCEPT ![p] = "ana_inserted"]
    /\ last' = Step(p, "analysis", "insert", loc[p].input, Pending)
    /\ UNCHANGED <<users, issued, now, nextUuid, loc>>

(* The store performs the insert_one of line 290 with the dictionary of
   lines 288-289; the request is not resumed yet. *)
CreateAnalysisInsert(p) ==
    /\ pc[p] = "ana_insert"
    /\ LET analysis == loc[p].analysis
           analysis_dict == [analysis EXCEPT !.created_at = isoformat(analysis.created_at)]
       IN  analyses' = Append(analyses, analysis_dict)
    /\ pc' = [pc EXCEPT ![p] = "ana_inserted"]
    /\ last' = Step(p, "analysis", "insert", loc[p].input, Pending)
    /\ UNCHANGED <<users, issued, now, nextUuid, loc>>

(* create_analysis is resumed and answers (lines 292-303). *)
CreateAnalysisRespond(p) ==
    /\ pc[p] = "ana_inserted"
    /\ LET analysis == loc[p].analysis IN
       Respond(p, "analysis", "respond", loc[p].input,
               Resp(200, "", CropAnalysisResponse(analysis, analysis.created_at), NoToken))
    /\ UNCHANGED <<users, analyses, issued, now, nextUuid>>

(************************* GET /analysis/history *************************)
MaxCreated(recs) ==
    CHOOSE t \in {recs[i].created_at.iso : i \in 1 .. Len(recs)} :
        \A i \in 1 .. Len(recs) : recs[i].created_at.iso <= t

(* sort(created_at, -1): descending on the stored ISO strings, which
   order as the instants they denote; the order among equal keys is the
   store's choice, tie. *)
RECURSIVE sort_created_desc(_, _)
sort_created_desc(recs, tie) ==
    IF recs = <<>> THEN <<>>
    ELSE LET m == MaxCreated(recs)
             IsTop(r) == r.created_at.iso = m
             IsRest(r) == r.created_at.iso # m
             top == SelectSeq(recs, IsTop)
         IN  (IF tie = "natural" THEN top ELSE Reverse(top))
                 \o sort_created_desc(SelectSeq(recs, IsRest), tie)

find_analyses_of(user_id) ==
    LET Mine(r) == r.user_id = user_id IN SelectSeq(analyses, Mine)

(* Variant: the limit is applied before the sort. *)
get_analysis_history_limit_first(current_user, tie) ==
    sort_created_desc(Take(find_analyses_of(current_user.id), HistoryLimit), tie)

(* The query of lines 307-310, as the store answers it. *)
get_analysis_history_find(current_user, tie) ==
    Take(sort_created_desc(find_analyses_of(current_user.id), tie), HistoryLimit)

(* get_analysis_history once it is resumed with the documents (lines 312-330). *)
get_analysis_history(found) ==
    [i \in 1 .. Len(found) |->
        CropAnalysisResponse(found[i], fromisoformat(found[i].created_at))]

GetHistoryAuth(p, token) == AuthDecode(p, "history", [token |-> token], "hist_user")

GetHistoryUser(p) == AuthFind(p, "history", "hist_user", "hist_found")

(* get_current_user and the handler are resumed: 401, or the query is sent. *)
GetHistoryQuery(p) ==
    /\ pc[p] = "hist_found"
    /\ LET a == get_current_user_return(loc[p].user)
           input == loc[p].input
       IN  IF ~a.ok
           THEN Respond(p, "history", "body", input, a.resp)
           ELSE /\ pc' = [pc EXCEPT ![p] = "hist_find"]
                /\ loc' = [loc EXCEPT ![p] =
                              [kind |-> "history", current_user |-> loc[p].user,
                               input |-> input]]
                /\ last' = Step(p, "history", "body", input, Pending)
    /\ UNCHANGED <<users, analyses, issued, now, nextUuid>>

(* The store answers the query; the request is not resumed yet. *)
GetHistoryFind(p, tie) ==
    /\ pc[p] = "hist_find"
    /\ pc' = [pc EXCEPT ![p] = "hist_list"]
    /\ loc' = [loc EXCEPT ![p] =
                  [kind |-> "history", input |-> loc[p].input,
                   found |-> get_analysis_history_find(loc[p].current_user, tie)]]
    /\ last' = Step(p, "history", "find", loc[p].input, Pending)
    /\ UNCHANGED <<users, analyses, issued, now, nextUuid>>

GetHistoryRespond(p) ==
    /\ pc[p] = "hist_list"
    /\ Respond(p, "history", "respond", loc[p].input,
               Resp(200, "", get_analysis_history(loc[p].found), NoToken))
    /\ UNCHANGED <<users, analyses, issued, now, nextUuid>>

(************************** GET /analysis/{id} ***************************)
(* Variant: the query filters on the id only. *)
get_analysis_detail_any_owner(analysis_id, current_user) ==
    LET i == FirstIdx({k \in 1 .. Len(analyses) : analyses[k].id = analysis_id})
    IN  IF i = 0 THEN Null ELSE analyses[i]

(* The find_one of lines 337-340, as the store answers it. *)
get_analysis_detail_find(analysis_id, current_user) ==
    LET i == FirstIdx({k \in 1 .. Len(analyses) :
                          /\ analyses[k].id = analysis_id
                          /\ analyses[k].user_id = current_user.id})
    IN  IF i = 0 THEN Null ELSE analyses[i]

(* get_analysis_detail once it is resumed with the answer (lines 342-348). *)
get_analysis_detail(analysis) ==
    IF analysis = Null
    THEN Resp(404, "Analysis not found", Null, NoToken)
    ELSE Resp(200, "",
              [analysis EXCEPT !.created_at = fromisoformat(analysis.created_at)],
              NoToken)

GetDetailAuth(p, token, analysis_id) ==
    AuthDecode(p, "detail", [token |-> token, analysis_id |-> analysis_id], "detail_user")

GetDetailUser(p) == AuthFind(p, "detail", "detail_user", "detail_found")

(* get_current_user and the handler are resumed: 401, or the query is sent. *)
GetDetailQuery(p) ==
    /\ pc[p] = "detail_found"
    /\ LET a == get_current_user_return(loc[p].user)
           input == loc[p].input
       IN  IF ~a.ok
           THEN Respond(p, "detail", "body", input, a.resp)
           ELSE /\ pc' = [pc EXCEPT ![p] = "detail_find"]
                /\ loc' = [loc EXCEPT ![p] =
                              [kind |-> "detail", current_user |-> loc[p].user,
                               input |-> input]]
                /\ last' = Step(p, "detail", "body", input, Pending)
    /\ UNCHANGED <<users, analyses, issued, now, nextUuid>>

(* The store answers the query; the request is not resumed yet. *)
GetDetailFind(p) ==
    /\ pc[p] = "detail_find"
    /\ pc' = [pc EXCEPT ![p] = "detail_got"]
    /\ loc' = [loc EXCEPT ![p] =
                  [kind |-> "detail", input |-> loc[p].input,
                   analysis |-> get_analysis_detail_find(loc[p].input.analysis_id,
                                                         loc[p].current_user)]]
    /\ last' = Step(p, "detail", "find", loc[p].input, Pending)
    /\ UNCHANGED <<users, analyses, issued, now, nextUuid>>

GetDetailRespond(p) ==
    /\ pc[p] = "detail_got"
    /\ Respond(p, "detail", "respond", loc[p].input, get_analysis_detail(loc[p].analysis))
    /\ UNCHANGED <<users, analyses, issued, now, nextUuid>>

(************************* what the AI may answer *************************)
Fenced(text) == FenceJson \o <<"\n">> \o text \o <<"\n">> \o Fence

Prose == <<"L", "e", "a", "f">>

LongProse == Prose \o [i \in 1 .. FallbackChars |-> " "] \o <<"!">>

AiResponses ==
    { Compact("{int85}"), Fenced(Compact("{str85}")), Prose, Compact("{high}"),
      Compact("{zero}"), Compact("{empty}"), Compact("{null}"), Compact("[list]"),
      Fence \o Compact("{int85}") \o Fence, Fence \o Indented \o Fence,
      Compact("{int85}") \o Compact("{int85}"), LongProse }

CoreResponses == { Compact("{int85}"), Prose }

TickSteps == {JWT_EXPIRATION_HOURS \div 2, JWT_EXPIRATION_HOURS - 1}

InFlight(k) == Cardinality({q \in Procs : pc[q] = k})

Registering == InFlight("reg_found") + InFlight("reg_insert")

(* Accounts and sessions: registration and login from two clients at once,
   profile lookups from the first, the clock. *)
Next ==
    \/ \E d \in TickSteps : now + d <= MaxNow /\ Tick(d)
    \/ \E p \in Procs, email \in Emails, name \in Names, password \in Passwords :
          Len(users) + Registering < MaxUsers /\ RegisterFind(p, email, name, password)
    \/ \E p \in Procs, salt \in Salts : RegisterUser(p, salt)
    \/ \E p \in Procs : RegisterInsert(p)
    \/ \E p \in Procs : RegisterRespond(p)
    \/ \E p \in Procs, email \in Emails, password \in Passwords :
          (\/ Cardinality(issued) + InFlight("login_found") < MaxIssued
           \/ login(find_user_by_email(email), password).status # 200)
          /\ LoginFind(p, email, password)
    \/ \E p \in Procs : Login(p)
    \/ \E token \in Credentials : GetMe("r1", token)
    \/ GetMeUser("r1")
    \/ GetMeRespond("r1")

Spec == Init /\ [][Next]_vars

(* The analysis routes, with accounts created by registration only.  Slot r1
   sends every kind of request; slot r2 is a second client submitting
   analyses, with a large upload or none, while r1's requests are in flight. *)
Submitting ==
    InFlight("ana_user") + InFlight("ana_found") + InFlight("ana_read")
        + InFlight("ana_ai") + InFlight("ana_insert")

SecondClientObservations ==
    TextObservations \cup {obs \in Observations : obs.image = "spooled"}

NextAnalysis ==
    \/ \E email \in Emails :
          Len(users) < MaxUsers /\ RegisterFind("r1", email, "A", "p1")
    \/ RegisterUser("r1", 1)
    \/ RegisterInsert("r1")
    \/ RegisterRespond("r1")
    \/ \E token \in Credentials : GetMe("r1", token)
    \/ GetMeUser("r1")
    \/ GetMeRespond("r1")
    \/ \E token \in Credentials, obs \in TextObservations :
          Len(analyses) + Submitting < MaxAnalyses /\ CreateAnalysisAuth("r1", token, obs)
    \/ \E token \in IssuedTokens, obs \in SecondClientObservations :
          Len(analyses) + Submitting < MaxAnalyses /\ CreateAnalysisAuth("r2", token, obs)
    \/ \E p \in Procs : CreateAnalysisUser(p)
    \/ \E p \in Procs : CreateAnalysisBody(p)
    \/ CreateAnalysisRead("r2")
    \/ \E p \in Procs : CreateAnalysisAiError(p)
    \/ \E p \in Procs, response \in CoreResponses : CreateAnalysisAi(p, response)
    \/ \E p \in Procs : CreateAnalysisInsert(p)
    \/ \E p \in Procs : CreateAnalysisRespond(p)
    \/ \E token \in Credentials : GetHistoryAuth("r1", token)
    \/ GetHistoryUser("r1")
    \/ GetHistoryQuery("r1")
    \/ \E tie \in {"natural", "reverse"} : GetHistoryFind("r1", tie)
    \/ GetHistoryRespond("r1")
    \/ \E token \in Credentials, analysis_id \in 1 .. nextUuid :
          GetDetailAuth("r1", token, analysis_id)
    \/ GetDetailUser("r1")
    \/ GetDetailQuery("r1")
    \/ GetDetailFind("r1")
    \/ GetDetailRespond("r1")

SpecAnalysis == Init /\ [][NextAnalysis]_vars

(* The Diagnosis Requester: one client submitting analyses and reading the
   saved records back.  While no record is stored, a submission comes with or
   without readings and an upload and gets every kind of answer from the AI;
   the clock moves while an upload is read. *)
NextDiagnosis ==
    \/ /\ pc["r1"] = "ana_read"
       /\ now + (JWT_EXPIRATION_HOURS \div 2) <= MaxNow
       /\ Tick(JWT_EXPIRATION_HOURS \div 2)
    \/ \E email \in Emails :
          Len(users) < MaxUsers /\ RegisterFind("r1", email, "A", "p1")
    \/ RegisterUser("r1", 1)
    \/ RegisterInsert("r1")
    \/ RegisterRespond("r1")
    \/ \E token \in IssuedTokens, obs \in Observations :
          /\ Len(analyses) < MaxAnalyses
          /\ analyses = <<>> \/ obs \in TextObservations
          /\ CreateAnalysisAuth("r1", token, obs)
    \/ CreateAnalysisUser("r1")
    \/ CreateAnalysisBody("r1")
    \/ CreateAnalysisRead("r1")
    \/ CreateAnalysisAiError("r1")
    \/ \E response \in AiResponses :
          /\ analyses = <<>> \/ response \in CoreResponses
          /\ CreateAnalysisAi("r1", response)
    \/ CreateAnalysisInsert("r1")
    \/ CreateAnalysisRespond("r1")
    \/ \E token \in IssuedTokens, analysis_id \in 1 .. nextUuid :
          GetDetailAuth("r1", token, analysis_id)
    \/ GetDetailUser("r1")
    \/ GetDetailQuery("r1")
    \/ GetDetailFind("r1")
    \/ GetDetailRespond("r1")

SpecDiagnosis == Init /\ [][NextDiagnosis]_vars

(* A long-lived account: the accounts are created, the clock advances and
   other users submit while fewer than HistEarly analyses are stored; from
   then on the first user keeps submitting, up to HistAnalyses records. *)
NextHistory ==
    \/ Len(analyses) < HistEarly /\ now + (JWT_EXPIRATION_HOURS \div 2) <= HistMaxNow
       /\ Tick(JWT_EXPIRATION_HOURS \div 2)
    \/ \E email \in Emails :
          Len(analyses) < HistEarly /\ Len(users) < MaxUsers
          /\ RegisterFind("r1", email, "A", "p1")
    \/ RegisterUser("r1", 1)
    \/ RegisterInsert("r1")
    \/ RegisterRespond("r1")
    \/ \E token \in IssuedTokens, obs \in TextObservations :
          /\ Len(analyses) < HistAnalyses
          /\ token.user_id = users[1].id \/ Len(analyses) < HistEarly
          /\ CreateAnalysisAuth("r1", token, obs)
    \/ CreateAnalysisUser("r1")
    \/ CreateAnalysisBody("r1")
    \/ CreateAnalysisAi("r1", Compact("{int85}"))
    \/ CreateAnalysisInsert("r1")
    \/ CreateAnalysisRespond("r1")
    \/ \E token \in IssuedTokens : GetHistoryAuth("r1", token)
    \/ GetHistoryUser("r1")
    \/ GetHistoryQuery("r1")
    \/ \E tie \in {"natural", "reverse"} : GetHistoryFind("r1", tie)
    \/ GetHistoryRespond("r1")

SpecHistory == Init /\ [][NextHistory]_vars

(***************************************************************************)
(*                         Properties: accounts and sessions                *)
(***************************************************************************)
HasEmail(email) == \E k \in 1 .. Len(users) : users[k].email = email

(* C1: in every reachable state of the user store, also under interleaved
   registrations, no two User records have the same email. *)
C1_NoDuplicateEmail ==
    \A i, j \in 1 .. Len(users) : i # j => users[i].email # users[j].email

(* C2: a registration whose lookup is answered when a User with that email
   is already stored (as it is for every registration that starts then) is
   answered 400, with no token and no user in the response, and leaves the
   user store (and everything else the service keeps) unchanged. *)
C2_DuplicateRegistrationRejected ==
    [][ /\ (/\ last'.op = "register"
            /\ last'.phase = "find"
            /\ HasEmail(last'.input.email))
           => /\ \A p \in Procs : pc'[p] # pc[p] => loc'[p].existing_user # Null
              /\ UNCHANGED <<users, analyses, issued, nextUuid>>
        /\ \A p \in Procs :
              (/\ pc[p] = "reg_found"
               /\ pc'[p] # pc[p]
               /\ loc[p].existing_user # Null)
              => /\ last'.op = "register"
                 /\ last'.resp.status = 400
                 /\ last'.resp.token = NoToken
                 /\ last'.resp.body = Null
                 /\ pc'[p] = "idle"
                 /\ UNCHANGED <<users, analyses, issued, nextUuid>>
      ]_vars

C2_Witness ==
    /\ last.op = "register"
    /\ last.resp.status = 400
    /\ HasEmail(last.input.email)

(* C3: every failed login, whether the email is unknown or the email is
   known and the password is wrong, gets one and the same response (401, the
   same detail, no token, no user) and changes no store. *)
LoginFailure == Resp(401, "Invalid email or password", Null, NoToken)

C3_LoginFailsUniformly ==
    [][ (last'.op = "login" /\ last'.phase = "respond" /\ last'.resp.status # 200)
        => (/\ last'.resp = LoginFailure
            /\ UNCHANGED <<users, analyses, issued>>) ]_vars

C3_Witness ==
    /\ last.op = "login"
    /\ last.resp = LoginFailure
    /\ HasEmail(last.input.email)
    /\ \E e \in Emails : ~HasEmail(e)

(* Where a request holds the answer of the user lookup, and where it runs
   as the user found. *)
UserFound == {"me_found", "ana_found", "hist_found", "detail_found"}

Authenticated == {"ana_read", "ana_ai", "hist_find", "detail_find"}

(* C4: whenever get_current_user accepts a token issued by register or
   login for user A, the record it returns has A's id, email and name:
   whenever the store is asked, in the answer a suspended request holds, in
   the answer of GET /auth/me, and in the current_user of every request that
   has passed authentication. *)
C4_TokenAuthenticatesItsUser ==
    /\ \A i \in issued :
          LET user == get_current_user_find(i.token)
          IN  user # Null => Public(user) = i.user
    /\ (last.op = "me" /\ last.resp.status = 200)
          => \A i \in issued : i.token = last.input.token => last.resp.body = i.user
    /\ \A p \in Procs, i \in issued :
          /\ (pc[p] \in UserFound /\ loc[p].input.token = i.token /\ loc[p].user # Null)
                => Public(loc[p].user) = i.user
          /\ (pc[p] \in Authenticated /\ loc[p].input.token = i.token)
                => Public(loc[p].current_user) = i.user

C4_Witness ==
    /\ last.op = "me"
    /\ last.phase = "respond"
    /\ last.resp.status = 200
    /\ Len(users) = 2
    /\ users[1].email = users[2].email
    /\ last.resp.body.id = users[2].id
    /\ \E i \in issued : i.token = last.input.token

(* C5: a token issued at time t expires at t + 168 hours.  Until then the
   token check of get_current_user lets it through and the user lookup that
   follows finds its user, whatever has happened since; from then on the token
   check rejects it with 401 Token expired, an outcome that differs from those
   of a malformed or unsigned token and of a token for an unknown user.  The
   time is that of the token check: a request checked before the expiry is
   answered even when the user lookup returns after it. *)
TokenExpired == Resp(401, "Token expired", Null, NoToken)

C5_ValidUntilExpiryThenExpired ==
    /\ \A i \in issued :
          LET d == get_current_user_decode(i.token)
          IN  /\ i.token.exp = i.at + 168
              /\ get_current_user_return(get_current_user_find(i.token)).ok
              /\ now < i.at + 168 => d.ok
              /\ now >= i.at + 168 => ~d.ok /\ d.resp = TokenExpired
    /\ \A c \in CraftedTokens :
          c.exp > now => get_current_user_decode(c).resp # TokenExpired
    /\ \A i \in issued :
          (last.op = "me" /\ last.input.token = i.token)
             => /\ last.phase = "auth"
                   => (IF now < i.at + 168 THEN last.resp = Pending
                                           ELSE last.resp = TokenExpired)
                /\ last.phase = "respond" => last.resp.status = 200

C5_Witness ==
    /\ last.op = "me"
    /\ last.phase = "auth"
    /\ last.resp = TokenExpired
    /\ \E i \in issued : i.token = last.input.token /\ now = i.at + 168
    /\ \E i \in issued : now < i.at + 168

(***************************************************************************)
(*                         Properties: analyses                             *)
(***************************************************************************)
OwnedBy(analysis_id, user_id) ==
    \E k \in 1 .. Len(analyses) :
        analyses[k].id = analysis_id /\ analyses[k].user_id = user_id

OwnedByOther(analysis_id, user_id) ==
    \E k \in 1 .. Len(analyses) :
        analyses[k].id = analysis_id /\ analyses[k].user_id # user_id

AnalysisNotFound == Resp(404, "Analysis not found", Null, NoToken)

(* What GET /analysis/{id} answers when the store is asked now. *)
DetailNow(analysis_id, user) ==
    get_analysis_detail(get_analysis_detail_find(analysis_id, user))

DetailScoped ==
    \A u \in 1 .. Len(users), id \in 1 .. nextUuid :
        LET r == DetailNow(id, users[u])
        IN  /\ r.status = 200 => r.body.id = id /\ r.body.user_id = users[u].id
            /\ OwnedByOther(id, users[u].id)
                  => r = DetailNow(nextUuid, users[u]) /\ r = AnalysisNotFound

(* C6: for every user U and every analysis id, GET /analysis/{id} returns a
   record only if the record has that id and U's user_id; for an id of
   another user's record the response is the 404 given for an id that no
   record has.  The store answers with U's record of that id, or with
   nothing, and the response is made from that answer. *)
C6_DetailScopedToOwner ==
    /\ []DetailScoped
    /\ [][ /\ (last'.op = "detail" /\ last'.phase = "find")
              => \A p \in Procs :
                    pc'[p] # pc[p]
                    => IF OwnedBy(last'.input.analysis_id, last'.input.token.user_id)
                       THEN /\ loc'[p].analysis # Null
                            /\ loc'[p].analysis.id = last'.input.analysis_id
                            /\ loc'[p].analysis.user_id = last'.input.token.user_id
                       ELSE loc'[p].analysis = Null
           /\ (last'.op = "detail" /\ last'.phase = "respond")
              => \A p \in Procs :
                    pc'[p] # pc[p]
                    => IF loc[p].analysis = Null
                       THEN last'.resp = AnalysisNotFound
                       ELSE /\ last'.resp.status = 200
                            /\ last'.resp.body.id = last'.input.analysis_id
                            /\ last'.resp.body.user_id = last'.input.token.user_id
         ]_vars

C6_Witness ==
    /\ last.op = "detail"
    /\ last.phase = "respond"
    /\ last.resp = AnalysisNotFound
    /\ OwnedByOther(last.input.analysis_id, last.input.token.user_id)
    /\ \E k \in 1 .. Len(analyses) : analyses[k].user_id = last.input.token.user_id

(* The stored records of a user, and whether a history entry is one of them. *)
RecordsOf(user_id) == {k \in 1 .. Len(analyses) : analyses[k].user_id = user_id}

(* C7: GET /analysis/history for user U returns at most 100 entries, each a
   distinct record of U, with creation time never increasing from one entry
   to the next; every record of U is returned when U has at most 100, and when
   U has more, 100 are returned and no omitted record of U is newer than a
   returned one. *)
C7_HistoryNewestFirstCapped ==
    (last.op = "history" /\ last.phase = "respond")
    => LET h == last.resp.body
           uid == last.input.token.user_id
           mine == RecordsOf(uid)
           ids == {h[i].id : i \in 1 .. Len(h)}
           omitted == {k \in mine : analyses[k].id \notin ids}
       IN  /\ last.resp.status = 200
           /\ Len(h) <= 100
           /\ Cardinality(ids) = Len(h)
           /\ \A i \in 1 .. Len(h) :
                 \E k \in mine : /\ analyses[k].id = h[i].id
                                 /\ analyses[k].created_at.iso = h[i].created_at
           /\ \A i \in 1 .. Len(h) - 1 : h[i].created_at >= h[i + 1].created_at
           /\ Len(h) = IF Cardinality(mine) > 100 THEN 100 ELSE Cardinality(mine)
           /\ \A k \in omitted : analyses[k].created_at.iso <= h[Len(h)].created_at

C7_Witness ==
    /\ last.op = "history"
    /\ last.phase = "respond"
    /\ Len(last.resp.body) = 100
    /\ Cardinality(RecordsOf(last.input.token.user_id)) > 100
    /\ \E k \in 1 .. Len(analyses) : analyses[k].user_id # last.input.token.user_id
    /\ last.resp.body[1].created_at > analyses[1].created_at.iso
    /\ analyses[1].user_id = last.input.token.user_id

(* What the fallback of the Diagnosis Requester must put into the record. *)
IsFallbackRecord(doc, response) ==
    /\ doc.diagnosis = <<"Analysis completed">>
    /\ doc.confidence_score = 75
    /\ doc.immediate_action = <<"Monitor crop closely">>
    /\ doc.sustainable_treatment = SubSeq(response, 1, Min(200, Len(response)))
    /\ doc.resource_efficiency_tip = <<"Implement drip irrigation to conserve water">>
    /\ doc.risk_level = <<"Medium">>

(* The responses whose processing fails: the text left after stripping is
   not one JSON document, or its confidence_score cannot be made an integer. *)
NotJson ==
    { Prose, Fence \o Compact("{int85}") \o Fence, Fence \o Indented \o Fence,
      Compact("{int85}") \o Compact("{int85}"), LongProse }

BadConfidence == { Compact("{high}") }

(* C8: whenever processing the AI response fails (fence stripping, JSON
   parsing or the integer coercion of confidence_score), the request is not
   answered with an error and goes on to save the fallback record. *)
C8_ProcessingFailureFallsBack ==
    (/\ last.op = "analysis"
     /\ last.phase = "ai"
     /\ last.input.response \in NotJson \cup BadConfidence)
    => /\ last.resp = Pending
       /\ IsFallbackRecord(last.input.doc, last.input.response)

(* The part of C8 that the code does satisfy: a response that is not JSON
   yields the fallback record, which is then saved and reported. *)
C8_NotJsonFallsBack ==
    /\ (/\ last.op = "analysis" /\ last.phase = "ai"
        /\ last.input.response \in NotJson)
       => /\ last.resp = Pending
          /\ IsFallbackRecord(last.input.doc, last.input.response)
    /\ (/\ last.op = "analysis" /\ last.phase \in {"insert", "respond"}
        /\ last.input.response \in NotJson)
       => /\ last.phase = "respond" => last.resp.status = 200
          /\ IsFallbackRecord(analyses[Len(analyses)], last.input.response)

(* The confidence_score each well-formed response carries, as an integer. *)
WellFormed == { Compact("{int85}"), Fenced(Compact("{str85}")), Compact("{zero}") }

Carried(response) == IF response = Compact("{zero}") THEN 0 ELSE 85

(* C9: every persisted record has an integer confidence_score, and a
   well-formed JSON response whose confidence_score is an integer or a string
   of decimal digits is saved with that integer as confidence_score (and
   reported with it). *)
C9_ConfidenceIsTheInteger ==
    /\ \A k \in 1 .. Len(analyses) : analyses[k].confidence_score \in Int
    /\ (/\ last.op = "analysis" /\ last.phase = "ai"
        /\ last.input.response \in WellFormed)
       => /\ last.resp = Pending
          /\ last.input.doc.confidence_score = Carried(last.input.response)
    /\ (/\ last.op = "analysis" /\ last.phase \in {"insert", "respond"}
        /\ last.input.response \in WellFormed)
       => /\ analyses[Len(analyses)].confidence_score = Carried(last.input.response)
          /\ last.phase = "respond"
                => /\ last.resp.body.confidence_score = Carried(last.input.response)
                   /\ last.resp.body.id = analyses[Len(analyses)].id

C9_Witness ==
    /\ last.op = "analysis"
    /\ last.phase = "respond"
    /\ last.input.response = Fenced(Compact("{str85}"))
    /\ analyses[Len(analyses)].confidence_score = 85

(* A token the token check must turn away: missing, malformed, unsigned,
   expired or without user_id; and a token naming a user that is not stored. *)
Unauthorized(token) ==
    \/ token.fmt # "jwt"
    \/ ~token.sig_ok
    \/ token.exp <= now
    \/ token.user_id = NullId

UnknownUser(token) == \A k \in 1 .. Len(users) : users[k].id # token.user_id

BearerRoutes == {"me", "analysis", "history", "detail"}

(* C10: on every bearer-authenticated route a request whose token is
   missing, malformed, expired or names no stored user is answered 401 or
   403 with no body, and the handler goes no further: no AI call is started,
   no analysis is looked up, no store changes.  The first four are turned
   away by the token check; for a token naming no stored user the store
   answers with nothing and the request ends with 401 when it is resumed. *)
C10_UnauthorizedStopsAtTheDoor ==
    [][ /\ (/\ last'.op \in BearerRoutes
            /\ last'.phase = "auth"
            /\ Unauthorized(last'.input.token))
           => (/\ last'.resp.status \in {401, 403}
               /\ last'.resp.body = Null
               /\ UNCHANGED <<users, analyses, issued, nextUuid, pc, loc>>)
        /\ (/\ last'.op \in BearerRoutes
            /\ last'.phase = "user"
            /\ UnknownUser(last'.input.token))
           => \A p \in Procs : pc'[p] # pc[p] => loc'[p].user = Null
        /\ \A p \in Procs :
              (pc[p] \in UserFound /\ pc'[p] # pc[p] /\ loc[p].user = Null)
              => (/\ last'.op \in BearerRoutes
                  /\ last'.resp.status = 401
                  /\ last'.resp.body = Null
                  /\ pc'[p] = "idle"
                  /\ UNCHANGED <<users, analyses, issued, nextUuid>>)
        /\ \A p \in Procs :
              pc'[p] \in Authenticated => ~UnknownUser(loc'[p].input.token)
      ]_vars

C10_Witness ==
    /\ last.op = "analysis"
    /\ last.phase = "auth"
    /\ last.resp = TokenExpired
    /\ Len(analyses) > 0
    /\ \E k \in 1 .. Len(users) : users[k].id = last.input.token.user_id

(* The fields of a saved analysis record. *)
RecordFields ==
    {"id", "user_id", "crop_name", "growth_stage", "symptoms", "soil_moisture",
     "temperature", "humidity", "image_data", "diagnosis",
     "confidence_score", "immediate_action", "sustainable_treatment",
     "resource_efficiency_tip", "risk_level", "created_at"}

Complete(rec, uuids, clock) ==
    /\ DOMAIN rec = RecordFields
    /\ rec.confidence_score \in Int
    /\ rec.id \in 1 .. uuids
    /\ rec.created_at.iso \in 0 .. clock

GainsOne(old, new) ==
    /\ Len(new) = Len(old) + 1
    /\ SubSeq(new, 1, Len(old)) = old

(* Where a POST /analysis is when its record has not been stored. *)
NothingStored == {"idle", "ana_user", "ana_found", "ana_read", "ana_ai", "ana_insert"}

(* C11: when the AI call of a POST /analysis fails, the request ends there
   with an error response: the call is not sent again and no record is
   persisted; and whatever a POST /analysis step does, the analysis store
   either stays as it is or gains exactly one complete record, and a request
   gains it exactly when it goes on to answer 200: a request answered with an
   error has stored nothing. *)
C11_AiFailureIsTerminal ==
    [][ /\ (last'.op = "analysis" /\ last'.phase = "ai_error")
           => /\ last'.resp.status = 500
              /\ analyses' = analyses
              /\ \A p \in Procs : pc[p] # "ana_ai" => pc'[p] # "ana_ai"
              /\ \E p \in Procs : pc[p] = "ana_ai" /\ pc'[p] = "idle"
              /\ \A p \in Procs : pc'[p] \notin {"ana_insert", "ana_inserted"}
        /\ (last'.op = "analysis" /\ last'.phase # "insert") => analyses' = analyses
        /\ (last'.op = "analysis" /\ last'.phase = "insert")
           => /\ GainsOne(analyses, analyses')
              /\ Complete(analyses'[Len(analyses')], nextUuid', now')
              /\ \E p \in Procs : pc[p] = "ana_insert" /\ pc'[p] = "ana_inserted"
        /\ analyses' # analyses => last'.op = "analysis" /\ last'.phase = "insert"
        /\ \A p \in Procs :
              (pc[p] = "ana_inserted" /\ pc'[p] # pc[p])
              => /\ last'.op = "analysis"
                 /\ last'.resp.status = 200
                 /\ \E k \in 1 .. Len(analyses) : analyses[k].id = last'.resp.body.id
        /\ (last'.op = "analysis" /\ last'.resp.status \notin {0, 200})
           => \A p \in Procs : pc'[p] # pc[p] => pc[p] \in NothingStored
        /\ (last'.op = "analysis" /\ last'.resp.status = 200)
           => \E p \in Procs : pc[p] = "ana_inserted" /\ pc'[p] = "idle"
      ]_vars

C11_Witness ==
    /\ last.op = "analysis"
    /\ last.phase = "ai_error"
    /\ last.resp.status = 500
    /\ Len(analyses) = 1
    /\ \A p \in Procs : pc[p] = "idle"

ResponseFields ==
    RecordFields \ {"user_id", "symptoms", "soil_moisture", "temperature", "humidity",
                    "image_data", "created_at"}

(* Every stored record is what GET /analysis/{id} gives its owner. *)
OwnerReadsSaved ==
    \A k \in 1 .. Len(analyses) :
        \E u \in 1 .. Len(users) :
            /\ users[u].id = analyses[k].user_id
            /\ LET r == DetailNow(analyses[k].id, users[u])
               IN  /\ r.status = 200
                   /\ \A f \in RecordFields \ {"created_at"} : r.body[f] = analyses[k][f]
                   /\ r.body.created_at = analyses[k].created_at.iso

(* C12: a POST /analysis that succeeds adds exactly one record, with an id
   no earlier record has and the requester's user_id, and reports the field
   values of that record in its 200 response; no step ever changes or removes
   a stored record; in every state each stored record is what GET
   /analysis/{id} returns to its owner, and every 200 of GET /analysis/{id} is
   a stored record of the requester, field for field. *)
C12_SavedOnceReadBackUnchanged ==
    /\ []OwnerReadsSaved
    /\ [][ /\ (last'.op = "analysis" /\ last'.phase = "insert")
              => /\ GainsOne(analyses, analyses')
                 /\ LET rec == analyses'[Len(analyses')]
                    IN  /\ \A k \in 1 .. Len(analyses) : analyses[k].id # rec.id
                        /\ \A u \in 1 .. Len(users) : users[u].id # rec.id
                        /\ rec.user_id = last'.input.token.user_id
           /\ (last'.op = "analysis" /\ last'.resp.status = 200)
              => \E k \in 1 .. Len(analyses) :
                    /\ analyses[k].id = last'.resp.body.id
                    /\ analyses[k].user_id = last'.input.token.user_id
                    /\ \A f \in ResponseFields : last'.resp.body[f] = analyses[k][f]
                    /\ last'.resp.body.created_at = analyses[k].created_at.iso
           /\ Len(analyses') >= Len(analyses)
           /\ SubSeq(analyses', 1, Len(analyses)) = analyses
           /\ (last'.op = "detail" /\ last'.resp.status = 200)
              => \E k \in 1 .. Len(analyses) :
                    /\ analyses[k].id = last'.input.analysis_id
                    /\ analyses[k].user_id = last'.input.token.user_id
                    /\ \A f \in RecordFields \ {"created_at"} :
                          last'.resp.body[f] = analyses[k][f]
                    /\ last'.resp.body.created_at = analyses[k].created_at.iso
         ]_vars

C12_Witness ==
    /\ last.op = "detail"
    /\ last.phase = "respond"
    /\ last.resp.status = 200
    /\ Len(analyses) = 2
    /\ last.resp.body.id = analyses[1].id
    /\ analyses[2].user_id = analyses[1].user_id

(* The password a stored User registered with is the one its hash was made
   from. *)
RegisteredWith(user, password) ==
    user.password_hash = hash_password(password, user.password_hash.salt)

Matching(email, password) ==
    {k \in 1 .. Len(users) :
        users[k].email = email /\ RegisteredWith(users[k], password)}

(* The login looked up a user that has the email and registered with the
   password exactly when such a user is stored. *)
FoundIffStored(user, email, password) ==
    IF Matching(email, password) # {}
    THEN \E k \in Matching(email, password) : user = users[k]
    ELSE user = Null \/ ~RegisteredWith(user, password)

(* The login answers 200 exactly for a user that registered with the
   password, with a token for that user and that user id, email and name. *)
AnswersFor(user, password, resp) ==
    /\ resp.status = 200 <=> (user # Null /\ RegisteredWith(user, password))
    /\ resp.status = 200
          => /\ resp.body = Public(user)
             /\ resp.token.user_id = user.id
             /\ resp.token.email = user.email

(* C13: a login succeeds exactly when, as the store is asked, some stored
   User has the email and registered with the password; a successful login
   returns a token for that user together with that user id, email and name;
   no login changes the user store or the analysis store. *)
C13_LoginSucceedsExactly ==
    [][ last'.op = "login"
        => /\ last'.phase = "find"
              => \A p \in Procs :
                    pc'[p] # pc[p]
                    => FoundIffStored(loc'[p].user, last'.input.email, last'.input.password)
           /\ last'.phase = "respond"
              => \A p \in Procs :
                    pc'[p] # pc[p]
                    => AnswersFor(loc[p].user, last'.input.password, last'.resp)
           /\ UNCHANGED <<users, analyses>>
      ]_vars

(* The part of C13 that the code does satisfy: while no email is stored
   twice, login succeeds exactly for the registered password. *)
C13_LoginSucceedsExactlyWhenUnique ==
    [][ last'.op = "login"
        => /\ (last'.phase = "find" /\ C1_NoDuplicateEmail)
              => \A p \in Procs :
                    pc'[p] # pc[p]
                    => FoundIffStored(loc'[p].user, last'.input.email, last'.input.password)
           /\ last'.phase = "respond"
              => \A p \in Procs :
                    pc'[p] # pc[p]
                    => AnswersFor(loc[p].user, last'.input.password, last'.resp)
           /\ UNCHANGED <<users, analyses>>
      ]_vars

UserIds == {users[k].id : k \in 1 .. Len(users)}

(* C14: in every reachable state, the user_id of every stored analysis
   record is the id of a User in the user store, also while other
   submissions and registrations are in flight. *)
C14_RecordOwnerExists ==
    \A k \in 1 .. Len(analyses) : analyses[k].user_id \in UserIds

C14_Witness ==
    /\ last.op = "analysis"
    /\ last.phase = "insert"
    /\ Len(analyses) = 2
    /\ analyses[1].user_id # analyses[2].user_id
    /\ C14_RecordOwnerExists
    /\ \E p \in Procs : pc[p] \notin {"idle", "ana_inserted"}

====
